---- MODULE Spec2Model ----
(***************************************************************************)
(* ClearVM (src/ClearVM/vm.c): the value stack, the frame pointer, the     *)
(* instruction pointer, the globals table and the upvalue cells, with one  *)
(* action per opcode handler dispatched by runVM.                          *)
(*                                                                         *)
(* The byte buffer handed to executeCode is an input: every byte that      *)
(* runVM or readU8 fetches is drawn from the opcode / operand sets when it *)
(* is fetched.  A run is followed until it would fetch a byte a second     *)
(* time (variable executed), so every behaviour is the run of one buffer.  *)
(***************************************************************************)
EXTENDS Integers, Sequences, FiniteSets, TLC

\* ------------------------------------------------------------------ bounds
STACK_MAX == 4          \* slots of vm->stack (scaled down)
GLOBAL_MAX == 2         \* slots of vm->globals (scaled down)
CodeLen == 9            \* bytes of instruction stream after the constant prelude
FrameLen == 13          \* the same, for the runs of SpecFrame
MaxOffset == 5          \* FUNCTION offsets of SpecFrame are drawn from 0..MaxOffset
MaxOperand == 2         \* operand bytes are drawn from 0..MaxOperand
MaxObjects == 2         \* upvalue cells allocated in one run
AllLen == 5             \* the same, for the runs of SpecAll
StructLen == 10         \* the same, for the runs of SpecStruct
ArithLen == 5           \* the same, for the runs of SpecArith
JumpLen == 6            \* the same, for the runs of SpecJump
ClockLen == 5           \* the same, for the runs of SpecClock
MaxCount == 2           \* count bytes of SpecLoad are drawn from 0..MaxCount
MaxLength == 19         \* buffer lengths of SpecLoad are drawn from 0..MaxLength
UnknownTag == 7         \* a tag byte that is none of CONST_INT, CONST_NUM, CONST_STR
MaxHeap == 3            \* heap objects of all kinds allocated in one run
NumMax == 3             \* NUM payloads followed exactly: -NumMax .. NumMax

\* ------------------------------------------------------- addresses, bytes
NULL == 0               \* the empty reference list / no object
CELL == 0 - 1           \* UpvalueObject.ptr pointing at the cell's own closed slot
WILD == 0 - 2           \* a references pointer that is no list
UNSET == 0 - 3          \* a references pointer not initialised and not yet read
codeIndex == 1          \* loadConstants' *outIndex for a pool of 0 constants
vm_start == 0           \* vm->start - code
Operands == 0 .. MaxOperand
Slots == 0 .. (STACK_MAX - 1)

Min(a, b) == IF a < b THEN a ELSE b

\* ------------------------------------------------------------------ values
makeValue(t, a) == [type |-> t, as |-> a, references |-> NULL]
makeNil == makeValue("VAL_NIL", 0)
makeBool(b) == makeValue("VAL_BOOL", IF b THEN 1 ELSE 0)
makeIP(p) == makeValue("VAL_IP", p)
makeFP(p) == makeValue("VAL_FP", p)
makeObject(id) == makeValue("VAL_OBJ", id)
makeInt(n) == makeValue("VAL_INT", n)
makeNum(x) == makeValue("VAL_NUM", x)
NoValue == makeValue("NONE", 0)

\* tag and payload agree (the reference list is not part of the value)
SameValue(a, b) == a.type = b.type /\ a.as = b.as

VARIABLES
    stack,      \* vm->stack : Slots -> Value
    sp,         \* vm->sp - vm->stack
    fp,         \* vm->fp - vm->stack
    ip,         \* vm->ip - code
    end,        \* vm->end - code
    globals,    \* vm->globals : [isSet, data]
    objects,    \* upvalue cells, by id 1..Len : [ptr, closed, next]
    status,     \* "run" while runVM loops, "ok" / "err" its Result
    opcode,     \* the opcode runVM dispatched last
    operand,    \* the operand byte its handler read
    executed,   \* code offsets fetched so far
    track,      \* history per upvalue cell
    calls,      \* history: frames opened by CALL, innermost last
    ret,        \* history: the frame whose epilogue the last step completed
    code,       \* the bytes at code[0 ..] that loadConstants may look at
    constants,  \* vm->constants, constantCount its length
    returnStore,\* vm->returnStore
    output,     \* the lines written to stdout
    oob,        \* history: a byte was read at an index >= length
    twin        \* a second VM run on the same buffer, or NoTwin

vars == <<stack, sp, fp, ip, end, globals, objects, status, opcode, operand,
          executed, track, calls, ret, code, constants, returnStore, output,
          oob, twin>>

\* The machine as a record, the form the handlers below work on.  lo is the
\* lowest value sp took during the instruction.
VM == [stack |-> stack, sp |-> sp, fp |-> fp, ip |-> ip, end |-> end,
       globals |-> globals,
       objects |-> objects, track |-> track, ok |-> TRUE, lo |-> sp,
       constants |-> constants, returnStore |-> returnStore,
       output |-> output, trap |-> FALSE]

\* a line `printf("|| ...\n")` writes to stdout; no PRINT line equals it
Diagnostic == <<0 - 1>>

\* printf("|| ...\n"); return RESULT_ERR;
RESULT_ERR(s) == [s EXCEPT !.ok = FALSE, !.output = Append(@, Diagnostic)]

\* ------------------------------------------------------------ stack macros
\* READ: readU8 and the macro around it each print a line on failure
readU8(s) ==
    IF ~s.ok THEN s
    ELSE IF 1 > s.end - s.ip THEN RESULT_ERR(RESULT_ERR(s))
    ELSE [s EXCEPT !.ip = @ + 1]

POP(s) ==
    IF ~s.ok THEN s
    ELSE IF s.sp = 0 THEN RESULT_ERR(s)
    ELSE [s EXCEPT !.sp = @ - 1, !.lo = Min(@, s.sp - 1)]

\* the Value a successful POP(s) yields
Popped(s) == s.stack[s.sp - 1]

\* variant: the full-stack test one slot late
PUSH_offByOne(s, v) ==
    IF ~s.ok THEN s
    ELSE IF s.sp > STACK_MAX THEN RESULT_ERR(s)
    ELSE [s EXCEPT !.stack[s.sp] = v, !.sp = @ + 1]

PUSH(s, v) ==
    IF ~s.ok THEN s
    ELSE IF s.sp = STACK_MAX THEN RESULT_ERR(s)
    ELSE [s EXCEPT !.stack[s.sp] = v, !.sp = @ + 1]

PEEK(s, offset) ==
    IF ~s.ok THEN s
    ELSE IF s.sp <= offset THEN RESULT_ERR(s)
    ELSE s

\* ---------------------------------------------------------------- globals
initGlobalArray ==
    [isSet |-> [i \in 0 .. (GLOBAL_MAX - 1) |-> FALSE],
     data |-> [i \in 0 .. (GLOBAL_MAX - 1) |-> makeNil]]

setGlobal(s, index, in) ==
    IF index >= GLOBAL_MAX THEN RESULT_ERR(s)
    ELSE [s EXCEPT !.globals.data[index] = in, !.globals.isSet[index] = TRUE]

\* variant: the is-set flag not consulted
getGlobalOk_ignoresIsSet(s, index) == index < GLOBAL_MAX

getGlobalOk(s, index) == index < GLOBAL_MAX /\ s.globals.isSet[index]

\* ---------------------------------------------------------- upvalue cells
NewTrack(from) ==
    [slot |-> from, live |-> TRUE, closes |-> 0, closedLive |-> FALSE,
     expected |-> NoValue, wrote |-> NoValue, popped |-> FALSE]

\* A new open cell pointing at stack slot `from`, put at the head of that
\* slot's reference list.  The Value it returns is makeObject(Len(objects)).
makeUpvalue(s, from) ==
    [s EXCEPT !.objects = Append(@, [type |-> "OBJ_UPVALUE", ptr |-> from,
                                     closed |-> makeNil,
                                     next |-> s.stack[from].references]),
              !.stack[from].references = Len(s.objects) + 1,
              !.track = Append(@, NewTrack(from))]

\* Copy the referenced slot into the cell and point the cell at its copy.
closeUpvalue(s, u) ==
    IF s.objects[u].ptr = CELL
    THEN [s EXCEPT !.track[u].closes = Min(2, @ + 1)]
    ELSE [s EXCEPT !.objects[u].closed = s.stack[s.objects[u].ptr],
                   !.objects[u].ptr = CELL,
                   !.track[u].closes = Min(2, @ + 1),
                   !.track[u].closedLive =
                       s.track[u].live /\ s.track[u].slot < s.sp,
                   !.track[u].expected = s.stack[s.objects[u].ptr]]

\* variant: a closed cell still read through the stack slot it was made on
readUpvalue_staleSlot(s, u) == s.stack[s.track[u].slot]

\* *upvalueObj->ptr
readUpvalue(s, u) ==
    IF s.objects[u].ptr = CELL THEN s.objects[u].closed
    ELSE s.stack[s.objects[u].ptr]

isUpvalue(s, v) ==
    v.type = "VAL_OBJ" /\ s.objects[v.as].type = "OBJ_UPVALUE"

\* history: a write to stack slot `slot` that did not go through cell `by`
\* ends what the open cells on that slot had written there
ForgetWrites(s, slot, by) ==
    [s EXCEPT !.track =
        [u \in DOMAIN s.track |->
            IF u # by /\ s.objects[u].type = "OBJ_UPVALUE"
               /\ s.objects[u].ptr = slot
            THEN [s.track[u] EXCEPT !.wrote = NoValue]
            ELSE s.track[u]]]

\* -------------------------------------------------------------- handlers
\* Each takes the machine as runVM leaves it after fetching the opcode byte,
\* and the operand byte(s) its READs will find.

op_pushTrue(s) == PUSH(s, makeBool(TRUE))

op_pushFalse(s) == PUSH(s, makeBool(FALSE))

op_pushNil(s) == PUSH(s, makeNil)

op_setGlobal(s, index) ==
    LET s1 == readU8(s)
        s2 == POP(s1)
    IN  IF ~s2.ok THEN s2 ELSE setGlobal(s2, index, Popped(s1))

op_pushGlobal(s, index) ==
    LET s1 == readU8(s)
    IN  IF ~s1.ok THEN s1
        ELSE IF ~getGlobalOk(s1, index) THEN RESULT_ERR(s1)
        ELSE PUSH(s1, s1.globals.data[index])

\* variant: the popped Value stored whole, its own reference list with it
op_setLocal_installsList(s, index) ==
    LET s1 == readU8(s)
        s2 == POP(s1)
        value == Popped(s1)
        at == s2.fp + index
    IN  IF ~s2.ok THEN s2
        ELSE IF index >= s2.sp - s2.fp THEN RESULT_ERR(s2)
        ELSE [ForgetWrites(s2, at, NULL) EXCEPT !.stack[at] = value]

\* variant: the index tested against sp - fp before the value is popped
op_setLocal_checksBeforePop(s, index) ==
    LET s1 == readU8(s)
        s2 == POP(s1)
        value == Popped(s1)
        at == s2.fp + index
    IN  IF ~s1.ok THEN s1
        ELSE IF index >= s1.sp - s1.fp THEN RESULT_ERR(s1)
        ELSE IF ~s2.ok THEN s2
        ELSE [ForgetWrites(s2, at, NULL) EXCEPT
                !.stack[at] = [value EXCEPT
                                  !.references = s2.stack[at].references]]

op_setLocal(s, index) ==
    LET s1 == readU8(s)
        s2 == POP(s1)
        value == Popped(s1)
        at == s2.fp + index
    IN  IF ~s2.ok THEN s2
        ELSE IF index >= s2.sp - s2.fp THEN RESULT_ERR(s2)
        ELSE [ForgetWrites(s2, at, NULL) EXCEPT
                !.stack[at] = [value EXCEPT
                                  !.references = s2.stack[at].references]]

\* variant: the index test off by one
op_getLocal_offByOne(s, index) ==
    LET s1 == readU8(s)
    IN  IF ~s1.ok THEN s1
        ELSE IF index > s1.sp - s1.fp THEN RESULT_ERR(s1)
        ELSE PUSH(s1, s1.stack[s1.fp + index])

op_getLocal(s, index) ==
    LET s1 == readU8(s)
    IN  IF ~s1.ok THEN s1
        ELSE IF index >= s1.sp - s1.fp THEN RESULT_ERR(s1)
        ELSE PUSH(s1, s1.stack[s1.fp + index])

RECURSIVE closeReferences(_, _)
closeReferences(s, references) ==
    IF references = NULL THEN s
    ELSE IF references = WILD THEN [s EXCEPT !.trap = TRUE]
    ELSE closeReferences(closeUpvalue(s, references),
                         s.objects[references].next)

op_pop(s) ==
    LET s1 == POP(s)
    IN  IF ~s1.ok THEN s1 ELSE closeReferences(s1, Popped(s).references)

\* a FUNCTION that pushes the address after the body, not the body's
op_function_pushesTarget(s, offset) ==
    LET s1 == readU8(s)
        s2 == PUSH(s1, makeIP(s1.ip + offset))
    IN  IF ~s2.ok THEN s2 ELSE [s2 EXCEPT !.ip = @ + offset]

op_function(s, offset) ==
    LET s1 == readU8(s)
        s2 == PUSH(s1, makeIP(s1.ip))
    IN  IF ~s2.ok THEN s2 ELSE [s2 EXCEPT !.ip = @ + offset]

\* a CALL that saves the caller's FP below the return address
op_call_fpFirst(s, paramCount) ==
    LET s1 == readU8(s)
        s2 == POP(s1)
        function == Popped(s1)
        base == s2.sp - paramCount
        \* params[i] = stack[base + i]; the copies survive the pushes below
        params == [i \in 0 .. (paramCount - 1) |-> s2.stack[base + i]]
        s3 == [s2 EXCEPT !.sp = base, !.lo = Min(@, base)]
        s4 == PUSH(s3, makeFP(s3.fp))
        s5 == PUSH(s4, makeIP(s4.ip))
        s6 == [s5 EXCEPT !.fp = s5.sp, !.ip = function.as]
        pushed == Min(paramCount, STACK_MAX - s6.sp)
        s7 == [s6 EXCEPT
                 !.stack = [j \in Slots |->
                              IF j >= s6.sp /\ j < s6.sp + pushed
                              THEN params[j - s6.sp] ELSE s6.stack[j]],
                 !.sp = @ + pushed]
    IN  IF ~s2.ok THEN s2
        ELSE IF function.type # "VAL_IP" THEN RESULT_ERR(s2)
        ELSE IF base < 0 THEN RESULT_ERR([s2 EXCEPT !.sp = 0, !.lo = 0])
        ELSE IF ~s5.ok THEN s5
        ELSE IF pushed < paramCount THEN RESULT_ERR(s7)
        ELSE s7

op_call(s, paramCount) ==
    LET s1 == readU8(s)
        s2 == POP(s1)
        function == Popped(s1)
        base == s2.sp - paramCount
        \* params[i] = stack[base + i]; the copies survive the pushes below
        params == [i \in 0 .. (paramCount - 1) |-> s2.stack[base + i]]
        s3 == [s2 EXCEPT !.sp = base, !.lo = Min(@, base)]
        s4 == PUSH(s3, makeIP(s3.ip))
        s5 == PUSH(s4, makeFP(s4.fp))
        s6 == [s5 EXCEPT !.fp = s5.sp, !.ip = function.as]
        pushed == Min(paramCount, STACK_MAX - s6.sp)
        s7 == [s6 EXCEPT
                 !.stack = [j \in Slots |->
                              IF j >= s6.sp /\ j < s6.sp + pushed
                              THEN params[j - s6.sp] ELSE s6.stack[j]],
                 !.sp = @ + pushed]
    IN  IF ~s2.ok THEN s2
        ELSE IF function.type # "VAL_IP" THEN RESULT_ERR(s2)
        ELSE IF base < 0 THEN RESULT_ERR([s2 EXCEPT !.sp = 0, !.lo = 0])
        ELSE IF ~s5.ok THEN s5
        ELSE IF pushed < paramCount THEN RESULT_ERR(s7)
        ELSE s7

op_loadIp(s) ==
    LET s1 == POP(s)
        ipValue == Popped(s)
    IN  IF ~s1.ok THEN s1
        ELSE IF ipValue.type # "VAL_IP" THEN RESULT_ERR(s1)
        ELSE [s1 EXCEPT !.ip = ipValue.as]

\* variant: the FP value popped and checked but not installed
op_loadFp_keepsFp(s) ==
    LET s1 == POP(s)
        fpValue == Popped(s)
    IN  IF ~s1.ok THEN s1
        ELSE IF fpValue.type # "VAL_FP" THEN RESULT_ERR(s1)
        ELSE s1

\* a LOAD_FP that takes a code address for a frame pointer as well
op_loadFp_anyPointer(s) ==
    LET s1 == POP(s)
        fpValue == Popped(s)
    IN  IF ~s1.ok THEN s1
        ELSE IF fpValue.type \notin {"VAL_FP", "VAL_IP"} THEN RESULT_ERR(s1)
        ELSE [s1 EXCEPT !.fp = fpValue.as]

op_loadFp(s) ==
    LET s1 == POP(s)
        fpValue == Popped(s)
    IN  IF ~s1.ok THEN s1
        ELSE IF fpValue.type # "VAL_FP" THEN RESULT_ERR(s1)
        ELSE [s1 EXCEPT !.fp = fpValue.as]

op_refLocal(s, index) ==
    LET s1 == readU8(s)
        s2 == makeUpvalue(s1, s1.fp + index)
    IN  IF ~s1.ok THEN s1
        ELSE IF index >= s1.sp - s1.fp THEN RESULT_ERR(s1)
        ELSE PUSH(s2, makeObject(Len(s2.objects)))

op_deref(s) ==
    LET s1 == PEEK(s, 0)
        upvalue == s.stack[s.sp - 1]
    IN  IF ~s1.ok THEN s1
        ELSE IF ~isUpvalue(s1, upvalue) THEN RESULT_ERR(s1)
        ELSE [s1 EXCEPT !.stack[s.sp - 1] = readUpvalue(s1, upvalue.as)]

\* variant: the upvalue handle peeked, not popped
op_setRef_keepsHandle(s) ==
    LET s1 == POP(s)
        value == Popped(s)
        s2 == PEEK(s1, 0)
        upvalue == Popped(s1)
        u == upvalue.as
        ptr == s2.objects[u].ptr
    IN  IF ~s2.ok THEN s2
        ELSE IF ~isUpvalue(s2, upvalue) THEN RESULT_ERR(s2)
        ELSE IF ptr = CELL THEN [s2 EXCEPT !.objects[u].closed = value]
        ELSE [s2 EXCEPT !.stack[ptr] = value]

op_setRef(s) ==
    LET s1 == POP(s)
        value == Popped(s)
        s2 == POP(s1)
        upvalue == Popped(s1)
        u == upvalue.as
        ptr == s2.objects[u].ptr
        seen == s2.track[u].live \/ s2.track[u].wrote # NoValue
        s3 == [s2 EXCEPT !.track[u].wrote = IF seen THEN value ELSE @]
    IN  IF ~s2.ok THEN s2
        ELSE IF ~isUpvalue(s2, upvalue) THEN RESULT_ERR(s2)
        ELSE IF ptr = CELL
        THEN [s3 EXCEPT !.objects[u].closed = value,
                        !.track[u].expected = value]
        ELSE [ForgetWrites(s3, ptr, u) EXCEPT !.stack[ptr] = value]

\* ----------------------------------------------- strings, structs, numbers
\* history entry of a heap object that is no upvalue cell
NoTrack == [NewTrack(0) EXCEPT !.live = FALSE]

\* a new String object owning the bytes `data`; its Value is
\* makeObject(Len(objects))
makeString(s, data) ==
    [s EXCEPT !.objects = Append(@, [type |-> "OBJ_STRING", data |-> data,
                                     length |-> Len(data)]),
              !.track = Append(@, NoTrack)]

\* a new Struct object of fieldCount fields, none assigned yet
makeStruct(s, fieldCount) ==
    [s EXCEPT !.objects = Append(@, [type |-> "OBJ_STRUCT",
                                     fields |-> [i \in 0 .. (fieldCount - 1)
                                                    |-> NoValue],
                                     fieldCount |-> fieldCount]),
              !.track = Append(@, NoTrack)]

isString(s, v) == v.type = "VAL_OBJ" /\ s.objects[v.as].type = "OBJ_STRING"

isStruct(s, v) == v.type = "VAL_OBJ" /\ s.objects[v.as].type = "OBJ_STRUCT"

\* a store of a whole Value into a stack slot
Store(s, at, v) == [ForgetWrites(s, at, NULL) EXCEPT !.stack[at] = v]

\* the union payload read under a tag: the stored payload when the Value has
\* that tag, otherwise whatever the bytes of the union give (pun)
s32(v, pun) == IF v.type = "VAL_INT" THEN v.as ELSE pun

f64(v, pun) == IF v.type = "VAL_NUM" THEN v.as ELSE pun

b8(v, pun) == IF v.type = "VAL_BOOL" THEN v.as # 0 ELSE pun # 0

\* doubles: the integers of -NumMax .. NumMax stand for themselves, NUM_OTHER
\* for every other double (fractions, -0.0, infinities, NaN, large values)
NUM_OTHER == 99

Exact(x) == x >= 0 - NumMax /\ x <= NumMax

Num(x) == IF Exact(x) THEN x ELSE NUM_OTHER

Abs(x) == IF x < 0 THEN 0 - x ELSE x

\* C's integer division, truncating toward zero (b # 0)
Quot(a, b) ==
    IF (a >= 0) = (b > 0) THEN Abs(a) \div Abs(b)
    ELSE 0 - (Abs(a) \div Abs(b))

numNeg(a) == IF a = 0 THEN NUM_OTHER ELSE Num(0 - a)

numMul(a, b) == IF a * b = 0 /\ (a < 0 \/ b < 0) THEN NUM_OTHER ELSE Num(a * b)

numDiv(a, b) ==
    IF b = 0 THEN NUM_OTHER
    ELSE IF a = 0 /\ b < 0 THEN NUM_OTHER
    ELSE IF a % Abs(b) # 0 THEN NUM_OTHER
    ELSE Num(Quot(a, b))

\* decimal digits as bytes
RECURSIVE Digits(_)
Digits(n) ==
    IF n < 10 THEN <<48 + n>> ELSE Digits(n \div 10) \o <<48 + (n % 10)>>

Decimal(n) == IF n < 0 THEN <<45>> \o Digits(0 - n) ELSE Digits(n)

\* a Value holds a double the model does not follow
Opaque(v) == v.type = "VAL_NUM" /\ v.as = NUM_OTHER

valuesEqual(a, b) == a.type = b.type /\ a.as = b.as

\* stringification of the Value in stack slot `at`, in place
stringifyValue(s, at) ==
    LET v == s.stack[at]
        text == CASE v.type = "VAL_NIL" -> <<110, 105, 108>>
                  [] v.type = "VAL_BOOL" ->
                        IF v.as # 0 THEN <<116, 114, 117, 101>>
                        ELSE <<102, 97, 108, 115, 101>>
                  [] v.type = "VAL_INT" -> Decimal(v.as)
                  [] v.type = "VAL_NUM" -> Decimal(v.as)
                  [] OTHER -> s.objects[v.as].data
        s1 == makeString(s, text)
    IN  IF v.type \in {"VAL_IP", "VAL_FP"} THEN RESULT_ERR(s)
        ELSE IF v.type = "VAL_OBJ" /\ ~isString(s, v) THEN RESULT_ERR(s)
        ELSE Store(s1, at, makeObject(Len(s1.objects)))

concatStrings(s, a, b) == makeString(s, a.data \o b.data)

\* ------------------------------------------------------- handlers, continued
UNARY_OP(s, op(_)) ==
    LET s1 == PEEK(s, 0)
    IN  IF ~s1.ok THEN s1
        ELSE Store(s1, s.sp - 1, op(s.stack[s.sp - 1]))

BINARY_OP(s, op(_, _)) ==
    LET s1 == POP(s)
        s2 == PEEK(s1, 0)
    IN  IF ~s2.ok THEN s2
        ELSE Store(s2, s1.sp - 1, op(s1.stack[s1.sp - 1], Popped(s)))

op_pushConst(s, index) ==
    LET s1 == readU8(s)
    IN  IF ~s1.ok THEN s1
        ELSE IF index >= Len(s1.constants) THEN RESULT_ERR(s1)
        ELSE PUSH(s1, s1.constants[index + 1])

op_int(s) ==
    LET s1 == PEEK(s, 0)
        value == s.stack[s.sp - 1]
    IN  IF ~s1.ok THEN s1
        ELSE CASE value.type = "VAL_BOOL" ->
                      Store(s1, s.sp - 1, makeInt(IF value.as # 0 THEN 1 ELSE 0))
               [] value.type = "VAL_INT" -> s1
               [] value.type = "VAL_NIL" -> Store(s1, s.sp - 1, makeInt(0))
               [] value.type = "VAL_NUM" ->
                      Store(s1, s.sp - 1, makeInt(value.as))
               [] OTHER -> RESULT_ERR(s1)

op_bool(s) ==
    LET s1 == PEEK(s, 0)
        value == s.stack[s.sp - 1]
        x == value.as
    IN  IF ~s1.ok THEN s1
        ELSE CASE value.type = "VAL_BOOL" -> s1
               [] value.type = "VAL_INT" ->
                      Store(s1, s.sp - 1, makeBool(value.as # 0))
               [] value.type = "VAL_NIL" ->
                      Store(s1, s.sp - 1, makeBool(FALSE))
               [] value.type = "VAL_NUM" ->
                      \* x < NUM_PRECISION or -x < NUM_PRECISION, x a whole
                      \* number and 0 < NUM_PRECISION < 1
                      Store(s1, s.sp - 1,
                            IF x > 0 THEN makeBool(x < 1)
                            ELSE makeBool(0 - x < 1))
               [] OTHER -> RESULT_ERR(s1)

op_num(s) ==
    LET s1 == PEEK(s, 0)
        value == s.stack[s.sp - 1]
    IN  IF ~s1.ok THEN s1
        ELSE CASE value.type = "VAL_BOOL" ->
                      Store(s1, s.sp - 1, makeNum(IF value.as # 0 THEN 1 ELSE 0))
               [] value.type = "VAL_INT" ->
                      Store(s1, s.sp - 1, makeNum(Num(value.as)))
               [] value.type = "VAL_NIL" -> Store(s1, s.sp - 1, makeNum(0))
               [] value.type = "VAL_NUM" -> s1
               [] OTHER -> RESULT_ERR(s1)

op_str(s) ==
    LET s1 == PEEK(s, 0)
    IN  IF ~s1.ok THEN s1 ELSE stringifyValue(s1, s.sp - 1)

\* now: (double)clock() / CLOCKS_PER_SEC
op_clock(s, now) == PUSH(s, makeNum(now))

op_print(s) ==
    LET s1 == POP(s)
        str == Popped(s)
    IN  IF ~s1.ok THEN s1
        ELSE IF ~isString(s1, str) THEN RESULT_ERR(s1)
        ELSE [s1 EXCEPT !.output = Append(@, s1.objects[str.as].data)]

op_intNeg(s, pa) == UNARY_OP(s, LAMBDA a : makeInt(0 - s32(a, pa)))

op_numNeg(s, pa) == UNARY_OP(s, LAMBDA a : makeNum(numNeg(f64(a, pa))))

op_intAdd(s, pa, pb) ==
    BINARY_OP(s, LAMBDA a, b : makeInt(s32(a, pa) + s32(b, pb)))

op_numAdd(s, pa, pb) ==
    BINARY_OP(s, LAMBDA a, b : makeNum(Num(f64(a, pa) + f64(b, pb))))

op_intSub(s, pa, pb) ==
    BINARY_OP(s, LAMBDA a, b : makeInt(s32(a, pa) - s32(b, pb)))

op_numSub(s, pa, pb) ==
    BINARY_OP(s, LAMBDA a, b : makeNum(Num(f64(a, pa) - f64(b, pb))))

op_intMul(s, pa, pb) ==
    BINARY_OP(s, LAMBDA a, b : makeInt(s32(a, pa) * s32(b, pb)))

op_numMul(s, pa, pb) ==
    BINARY_OP(s, LAMBDA a, b : makeNum(numMul(f64(a, pa), f64(b, pb))))

\* a.as.s32 / b.as.s32 with b.as.s32 = 0 is undefined in C: the process
\* traps (SIGFPE) or goes on with a quotient the program does not determine;
\* the machine is marked and the run is not followed further
op_intDiv(s, pa, pb) ==
    LET s1 == POP(s)
        s2 == PEEK(s1, 0)
    IN  IF ~s2.ok THEN s2
        ELSE IF s32(Popped(s), pb) = 0 THEN [s2 EXCEPT !.trap = TRUE]
        ELSE Store(s2, s1.sp - 1,
                   makeInt(Quot(s32(s1.stack[s1.sp - 1], pa),
                                s32(Popped(s), pb))))

op_numDiv(s, pa, pb) ==
    BINARY_OP(s, LAMBDA a, b : makeNum(numDiv(f64(a, pa), f64(b, pb))))

op_strCat(s) ==
    LET s1 == POP(s)
        s2 == PEEK(s1, 0)
        strB == Popped(s)
        strA == s1.stack[s1.sp - 1]
        s3 == concatStrings(s2, s2.objects[strA.as], s2.objects[strB.as])
    IN  IF ~s2.ok THEN s2
        ELSE IF ~isString(s2, strB) THEN RESULT_ERR(s2)
        ELSE IF ~isString(s2, strA) THEN RESULT_ERR(s2)
        ELSE Store(s3, s1.sp - 1, makeObject(Len(s3.objects)))

op_not(s, pa) == UNARY_OP(s, LAMBDA a : makeBool(~b8(a, pa)))

op_intLess(s, pa, pb) ==
    BINARY_OP(s, LAMBDA a, b : makeBool(s32(a, pa) < s32(b, pb)))

\* a < b - NUM_PRECISION: for whole a, b and 0 < NUM_PRECISION < 1, a < b
op_numLess(s, pa, pb) ==
    BINARY_OP(s, LAMBDA a, b : makeBool(f64(a, pa) < f64(b, pb)))

op_intGreater(s, pa, pb) ==
    BINARY_OP(s, LAMBDA a, b : makeBool(s32(a, pa) > s32(b, pb)))

op_numGreater(s, pa, pb) ==
    BINARY_OP(s, LAMBDA a, b : makeBool(f64(a, pa) > f64(b, pb)))

op_equal(s) == BINARY_OP(s, LAMBDA a, b : makeBool(valuesEqual(a, b)))

op_jump(s, offset) ==
    LET s1 == readU8(s)
        s2 == [s1 EXCEPT !.ip = @ + offset]
    IN  IF ~s1.ok THEN s1
        ELSE IF s2.ip > s2.end THEN RESULT_ERR(s2)
        ELSE s2

op_jumpIfFalse(s, offset, pa) ==
    LET s1 == readU8(s)
        s2 == POP(s1)
        cond == Popped(s1)
        s3 == [s2 EXCEPT !.ip = @ + offset]
    IN  IF ~s2.ok THEN s2
        ELSE IF ~b8(cond, pa)
        THEN IF s3.ip > s3.end THEN RESULT_ERR(s3) ELSE s3
        ELSE s2

op_loop(s, offset) ==
    LET s1 == readU8(s)
        s2 == [s1 EXCEPT !.ip = @ - offset]
    IN  IF ~s1.ok THEN s1
        ELSE IF s2.ip < vm_start THEN RESULT_ERR(s2)
        ELSE s2

op_setReturn(s) ==
    LET s1 == POP(s)
    IN  IF ~s1.ok THEN s1 ELSE [s1 EXCEPT !.returnStore = Popped(s)]

\* initVM sets returnStore.type only: until SET_RETURN, the references
\* pointer pushed is what the VM's memory held (garbage), NULL or no list
op_pushReturn(s, garbage) ==
    IF s.returnStore.references = UNSET
    THEN PUSH([s EXCEPT !.returnStore.references = garbage],
              [s.returnStore EXCEPT !.references = garbage])
    ELSE PUSH(s, s.returnStore)

\* a STRUCT that fills its fields in the order the values are popped
op_struct_reversed(s, fieldCount) ==
    LET s1 == readU8(s)
        s2 == makeStruct(s1, fieldCount)
        id == Len(s2.objects)
        base == s2.sp - fieldCount
        s3 == [s2 EXCEPT !.objects[id].fields =
                             [i \in 0 .. (fieldCount - 1) |->
                                 s2.stack[base + fieldCount - 1 - i]],
                         !.sp = base, !.lo = Min(@, base)]
    IN  IF ~s1.ok THEN s1
        ELSE IF base < 0 THEN RESULT_ERR([s2 EXCEPT !.sp = 0, !.lo = 0])
        ELSE PUSH(s3, makeObject(id))

op_struct(s, fieldCount) ==
    LET s1 == readU8(s)
        s2 == makeStruct(s1, fieldCount)
        id == Len(s2.objects)
        base == s2.sp - fieldCount
        s3 == [s2 EXCEPT !.objects[id].fields =
                             [i \in 0 .. (fieldCount - 1) |-> s2.stack[base + i]],
                         !.sp = base, !.lo = Min(@, base)]
    IN  IF ~s1.ok THEN s1
        ELSE IF base < 0 THEN RESULT_ERR([s2 EXCEPT !.sp = 0, !.lo = 0])
        ELSE PUSH(s3, makeObject(id))

op_getField(s, index) ==
    LET s1 == readU8(s)
        s2 == POP(s1)
        structValue == Popped(s1)
        structObj == s2.objects[structValue.as]
    IN  IF ~s2.ok THEN s2
        ELSE IF ~isStruct(s2, structValue) THEN RESULT_ERR(s2)
        ELSE IF index >= structObj.fieldCount THEN RESULT_ERR(s2)
        ELSE PUSH(s2, structObj.fields[index])

op_extractField(s, offset, index) ==
    LET s1 == readU8(readU8(s))
        s2 == PEEK(s1, offset)
        structValue == s2.stack[s2.sp - offset - 1]
        structObj == s2.objects[structValue.as]
    IN  IF ~s2.ok THEN s2
        ELSE IF ~isStruct(s2, structValue) THEN RESULT_ERR(s2)
        ELSE IF index >= structObj.fieldCount THEN RESULT_ERR(s2)
        ELSE PUSH(s2, structObj.fields[index])

\* a SET_FIELD that pops the struct reference as well
op_setField_popsStruct(s, index) ==
    LET s1 == readU8(s)
        s2 == POP(s1)
        field == Popped(s1)
        s3 == PEEK(s2, 0)
        structValue == s2.stack[s2.sp - 1]
        structObj == s3.objects[structValue.as]
    IN  IF ~s3.ok THEN s3
        ELSE IF ~isStruct(s3, structValue) THEN RESULT_ERR(s3)
        ELSE IF index >= structObj.fieldCount THEN RESULT_ERR(s3)
        ELSE POP([s3 EXCEPT !.objects[structValue.as].fields[index] = field])

op_setField(s, index) ==
    LET s1 == readU8(s)
        s2 == POP(s1)
        field == Popped(s1)
        s3 == PEEK(s2, 0)
        structValue == s2.stack[s2.sp - 1]
        structObj == s3.objects[structValue.as]
    IN  IF ~s3.ok THEN s3
        ELSE IF ~isStruct(s3, structValue) THEN RESULT_ERR(s3)
        ELSE IF index >= structObj.fieldCount THEN RESULT_ERR(s3)
        ELSE [s3 EXCEPT !.objects[structValue.as].fields[index] = field]

\* --------------------------------------------------------- loadConstants
CONST_INT == 0
CONST_NUM == 1
CONST_STR == 2

SIZE_MOD == 65536       \* size_t arithmetic wraps at SIZE_MOD (scaled down)
sizeof_uint8 == 1
sizeof_int32 == 4
sizeof_double == 8

\* a - b in size_t
SizeSub(a, b) == (a - b) % SIZE_MOD

\* code[index]; the bytes of mem past `length` are what lies behind the buffer
Byte(mem, index) == mem[index + 1]

Bytes(mem, index, n) == [k \in 1 .. n |-> Byte(mem, index + k - 1)]

\* *(int32_t *)(code + index), host byte order (little-endian)
decodeS32(bytes) ==
    bytes[1] + 256 * bytes[2] + 65536 * bytes[3]
    + 16777216 * (IF bytes[4] < 128 THEN bytes[4] ELSE bytes[4] - 256)

\* *(double *)(code + index): the images of 0.0, 1.0 and 2.0
decodeF64(bytes) ==
    IF bytes = <<0, 0, 0, 0, 0, 0, 0, 0>> THEN 0
    ELSE IF bytes = <<0, 0, 0, 0, 0, 0, 240, 63>> THEN 1
    ELSE IF bytes = <<0, 0, 0, 0, 0, 0, 0, 64>> THEN 2
    ELSE NUM_OTHER

\* the loader reads n bytes at index: history of reads at or past `length`,
\* and a read past the modelled memory is undefined (trap)
Reads(l, mem, length, index, n) ==
    [l EXCEPT !.oob = @ \/ (n > 0 /\ index + n > length),
              !.trap = @ \/ (n > 0 /\ index + n > Len(mem))]

\* the for loop of loadConstants from iteration i on
RECURSIVE loadRecords(_, _, _, _, _)
loadRecords(l, mem, length, i, constantCount) ==
    IF i >= constantCount \/ ~l.ok \/ l.trap THEN l
    ELSE
    LET index == l.index
        l0 == Reads(l, mem, length, index, 1)
        tag == Byte(mem, index)
        \* CONST_INT
        li == Reads(l0, mem, length, index + 1, sizeof_int32)
        lint == [li EXCEPT
                   !.constants = Append(@,
                       makeInt(decodeS32(Bytes(mem, index + 1, sizeof_int32)))),
                   !.index = index + 1 + sizeof_int32]
        \* CONST_NUM
        ln == Reads(l0, mem, length, index + 1, sizeof_double)
        lnum == [ln EXCEPT
                   !.constants = Append(@,
                       makeNum(decodeF64(Bytes(mem, index + 1, sizeof_double)))),
                   !.index = index + 1 + sizeof_double]
        \* CONST_STR
        ls == Reads(l0, mem, length, index + 1, 1)
        strLength == Byte(mem, index + 1)
        lc == Reads(ls, mem, length, index + 2, strLength)
        lh == makeString(lc, Bytes(mem, index + 2, strLength))
        lstr == [lh EXCEPT
                   !.constants = Append(@, makeObject(Len(lh.objects))),
                   !.index = index + 2 + strLength]
        next ==
            IF l0.trap THEN l0
            ELSE IF tag = CONST_INT
            THEN IF index >= SizeSub(length, sizeof_int32) THEN RESULT_ERR(l0)
                 ELSE IF li.trap THEN li
                 ELSE lint
            ELSE IF tag = CONST_NUM
            THEN IF index >= SizeSub(length, sizeof_double) THEN RESULT_ERR(l0)
                 ELSE IF ln.trap THEN ln
                 ELSE lnum
            ELSE IF tag = CONST_STR
            THEN IF index + 1 > SizeSub(length, sizeof_uint8) THEN RESULT_ERR(l0)
                 ELSE IF ls.trap THEN ls
                 ELSE IF index + 2 > SizeSub(length, strLength)
                 THEN RESULT_ERR(ls)
                 ELSE IF lc.trap THEN lc
                 ELSE lstr
            ELSE RESULT_ERR(l0)
    IN  loadRecords(next, mem, length, i + 1, constantCount)

\* a loader whose loop stops one record early
loadConstants_oneShort(s, mem, length) ==
    LET l0 == Reads([s EXCEPT !.constants = <<>>]
                       @@ [index |-> 0, oob |-> FALSE],
                    mem, length, 0, sizeof_uint8)
        constantCount == Byte(mem, 0)
    IN  IF l0.trap THEN l0
        ELSE loadRecords([l0 EXCEPT !.index = sizeof_uint8], mem, length, 0,
                         constantCount - 1)

\* loadConstants(vm, code, length, &index): .index is *outIndex
loadConstants(s, mem, length) ==
    LET l0 == Reads([s EXCEPT !.constants = <<>>]
                       @@ [index |-> 0, oob |-> FALSE],
                    mem, length, 0, sizeof_uint8)
        constantCount == Byte(mem, 0)
    IN  IF l0.trap THEN l0
        ELSE loadRecords([l0 EXCEPT !.index = sizeof_uint8], mem, length, 0,
                         constantCount)

\* ------------------------------------------------------- history of calls
\* A frame opened by CALL: the caller's fp, the return address, sp before the
\* instruction popped anything, the operand n, the callee's fp, how far the
\* epilogue got, and whether the saved IP and saved FP are still as pushed.
NoFrame == [callerFp |-> 0, ret |-> 0, spPre |-> 0, n |-> 0, base |-> 0,
            stage |-> "none", intact |-> TRUE]

\* the frames that the step leaves standing: sp stayed at or above their base
RECURSIVE Survive(_, _)
Survive(frames, r) ==
    IF frames = <<>> THEN <<>>
    ELSE IF frames[1].base <= r.lo
         THEN <<frames[1]>> \o Survive(Tail(frames), r)
         ELSE <<>>

\* a step that changes the saved IP or the saved FP of a frame spoils it
Touch(frames, r) ==
    [i \in DOMAIN frames |->
        [frames[i] EXCEPT
            !.intact = /\ @
                       /\ SameValue(r.stack[frames[i].base - 1],
                                    stack[frames[i].base - 1])
                       /\ SameValue(r.stack[frames[i].base - 2],
                                    stack[frames[i].base - 2])]]

Front(frames) == SubSeq(frames, 1, Len(frames) - 1)

Top(frames) == IF frames = <<>> THEN NoFrame ELSE frames[Len(frames)]

\* the step starts the epilogue of the innermost frame: LOAD_FP with the
\* callee's arguments and locals all popped
StartsEpilogue(op) ==
    op = "OP_LOAD_FP" /\ Top(calls).stage = "body" /\ sp = Top(calls).base

\* the step completes it: LOAD_IP right after that LOAD_FP
EndsEpilogue(op) == op = "OP_LOAD_IP" /\ Top(calls).stage = "fp"

NextCalls(r, op, arg) ==
    LET kept == Touch(Survive(IF Top(calls).stage = "fp" THEN Front(calls)
                              ELSE calls, r), r)
    IN  IF ~r.ok THEN calls
        ELSE IF StartsEpilogue(op)
        THEN [calls EXCEPT ![Len(calls)].stage = "fp"]
        ELSE IF EndsEpilogue(op) THEN Front(calls)
        ELSE IF op = "OP_CALL"
        THEN Append(kept, [callerFp |-> fp, ret |-> ip + 2, spPre |-> sp,
                           n |-> arg, base |-> r.fp, stage |-> "body",
                           intact |-> TRUE])
        ELSE kept

NextRet(r, op) ==
    IF r.ok /\ EndsEpilogue(op) THEN Top(calls) ELSE NoFrame

\* history per cell: the slot stays live while sp stays above it; POP of the
\* live slot itself is remembered
NextTrack(r, op) ==
    [u \in DOMAIN r.track |->
        [r.track[u] EXCEPT
            !.live = @ /\ r.track[u].slot < r.lo,
            !.popped = @ \/ (op = "OP_POP" /\ r.ok /\ r.track[u].live
                             /\ r.track[u].slot = sp - 1)]]

\* ------------------------------------------------------------------ runVM
\* the VM as initVM leaves it
Constructed ==
    /\ stack = [i \in Slots |-> makeNil]
    /\ sp = 0
    /\ fp = 0
    /\ globals = initGlobalArray
    /\ objects = <<>>
    /\ constants = <<>>
    /\ opcode = "none"
    /\ operand = 0
    /\ track = <<>>
    /\ calls = <<>>
    /\ ret = NoFrame
    /\ output = <<>>
    /\ oob = FALSE
    /\ returnStore = [makeNil EXCEPT !.references = UNSET]

\* no second VM
NoTwin == [status |-> "none"]

\* runVM entered on a buffer of `length` bytes with an empty constant pool
Started(length) ==
    /\ Constructed
    /\ code = <<0>>
    /\ ip = codeIndex
    /\ end = length
    /\ status = "run"
    /\ executed = 0 .. (codeIndex - 1)

Loaded(length) == Started(length) /\ twin = NoTwin

\* executeCode called with memory that starts with one of `blobs` and
\* a length in `lengths`; bytes of the blob past the length lie behind the
\* buffer
Handed(blobs, lengths) ==
    /\ Constructed
    /\ code \in blobs
    /\ end \in lengths
    /\ ip = 0
    /\ status = "load"
    /\ executed = {}
    /\ twin = NoTwin

Init == Loaded(codeIndex + CodeLen)

InitFrame == Loaded(codeIndex + FrameLen)

\* runVM going on with the next opcode whatever the last handler returned
Dispatch_ignoresResult(operands) ==
    /\ status \in {"run", "err"}
    /\ end - ip > 0
    /\ \A a \in ip .. (ip + operands) : a \notin executed
    /\ executed' = executed \cup {a \in ip .. (ip + operands) : a < end}

\* runVM's loop condition, and the bytes of this instruction not fetched before
Dispatch(operands) ==
    /\ status = "run"
    /\ end - ip > 0
    /\ \A a \in ip .. (ip + operands) : a \notin executed
    /\ executed' = executed \cup {a \in ip .. (ip + operands) : a < end}

\* the machine after `uint8_t opcode = *vm->ip++`
Fetched == [VM EXCEPT !.ip = @ + 1]

\* the handler's result becomes the VM's state
Install(r, op, arg) ==
    /\ Cardinality({u \in DOMAIN r.objects :
                        r.objects[u].type = "OBJ_UPVALUE"}) <= MaxObjects
    /\ Len(r.objects) <= MaxHeap
    /\ stack' = r.stack
    /\ sp' = r.sp
    /\ fp' = r.fp
    /\ ip' = r.ip
    /\ end' = r.end
    /\ globals' = r.globals
    /\ objects' = r.objects
    /\ status' = IF r.trap THEN "trap" ELSE IF r.ok THEN "run" ELSE "err"
    /\ opcode' = op
    /\ operand' = arg
    /\ track' = NextTrack(r, op)
    /\ calls' = NextCalls(r, op, arg)
    /\ ret' = NextRet(r, op)
    /\ constants' = r.constants
    /\ returnStore' = r.returnStore
    /\ output' = IF r.ok THEN r.output ELSE Append(r.output, Diagnostic)
    /\ UNCHANGED <<code, oob>>

Commit(r, op, arg) == Install(r, op, arg) /\ UNCHANGED twin

PushTrue == Dispatch(0) /\ Commit(op_pushTrue(Fetched), "OP_PUSH_TRUE", 0)

PushFalse == Dispatch(0) /\ Commit(op_pushFalse(Fetched), "OP_PUSH_FALSE", 0)

PushNil == Dispatch(0) /\ Commit(op_pushNil(Fetched), "OP_PUSH_NIL", 0)

SetGlobal ==
    /\ Dispatch(1)
    /\ \E index \in Operands :
          Commit(op_setGlobal(Fetched, index), "OP_SET_GLOBAL", index)

PushGlobal ==
    /\ Dispatch(1)
    /\ \E index \in Operands :
          Commit(op_pushGlobal(Fetched, index), "OP_PUSH_GLOBAL", index)

SetLocal ==
    /\ Dispatch(1)
    /\ \E index \in Operands :
          Commit(op_setLocal(Fetched, index), "OP_SET_LOCAL", index)

PushLocal ==
    /\ Dispatch(1)
    /\ \E index \in Operands :
          Commit(op_getLocal(Fetched, index), "OP_PUSH_LOCAL", index)

Pop == Dispatch(0) /\ Commit(op_pop(Fetched), "OP_POP", 0)

Function ==
    /\ Dispatch(1)
    /\ \E offset \in Operands :
          Commit(op_function(Fetched, offset), "OP_FUNCTION", offset)

FunctionFar ==
    /\ Dispatch(1)
    /\ \E offset \in 0 .. MaxOffset :
          Commit(op_function(Fetched, offset), "OP_FUNCTION", offset)

Call ==
    /\ Dispatch(1)
    /\ \E paramCount \in Operands :
          Commit(op_call(Fetched, paramCount), "OP_CALL", paramCount)

LoadIp == Dispatch(0) /\ Commit(op_loadIp(Fetched), "OP_LOAD_IP", 0)

LoadFp == Dispatch(0) /\ Commit(op_loadFp(Fetched), "OP_LOAD_FP", 0)

RefLocal ==
    /\ Dispatch(1)
    /\ \E index \in Operands :
          Commit(op_refLocal(Fetched, index), "OP_REF_LOCAL", index)

Deref == Dispatch(0) /\ Commit(op_deref(Fetched), "OP_DEREF", 0)

SetRef == Dispatch(0) /\ Commit(op_setRef(Fetched), "OP_SET_REF", 0)

\* values a payload read under another tag may give
Puns == 0 .. 1

\* the top n stack values are doubles the model follows
Followed(n) ==
    \A k \in 1 .. n : sp - k >= 0 => ~Opaque(stack[sp - k])

PushConst ==
    /\ Dispatch(1)
    /\ \E index \in Operands :
          Commit(op_pushConst(Fetched, index), "OP_PUSH_CONST", index)

CastInt == Dispatch(0) /\ Followed(1) /\ Commit(op_int(Fetched), "OP_INT", 0)

CastBool == Dispatch(0) /\ Followed(1) /\ Commit(op_bool(Fetched), "OP_BOOL", 0)

CastNum == Dispatch(0) /\ Commit(op_num(Fetched), "OP_NUM", 0)

CastStr == Dispatch(0) /\ Followed(1) /\ Commit(op_str(Fetched), "OP_STR", 0)

Clock ==
    /\ Dispatch(0)
    /\ \E now \in {0, NUM_OTHER} :
          Commit(op_clock(Fetched, now), "OP_CLOCK", 0)

PrintLine == Dispatch(0) /\ Commit(op_print(Fetched), "OP_PRINT", 0)

IntNeg ==
    /\ Dispatch(0)
    /\ \E pa \in Puns : Commit(op_intNeg(Fetched, pa), "OP_INT_NEG", 0)

NumNeg ==
    /\ Dispatch(0) /\ Followed(1)
    /\ \E pa \in Puns : Commit(op_numNeg(Fetched, pa), "OP_NUM_NEG", 0)

IntAdd ==
    /\ Dispatch(0)
    /\ \E pa, pb \in Puns :
          Commit(op_intAdd(Fetched, pa, pb), "OP_INT_ADD", 0)

NumAdd ==
    /\ Dispatch(0) /\ Followed(2)
    /\ \E pa, pb \in Puns :
          Commit(op_numAdd(Fetched, pa, pb), "OP_NUM_ADD", 0)

IntSub ==
    /\ Dispatch(0)
    /\ \E pa, pb \in Puns :
          Commit(op_intSub(Fetched, pa, pb), "OP_INT_SUB", 0)

NumSub ==
    /\ Dispatch(0) /\ Followed(2)
    /\ \E pa, pb \in Puns :
          Commit(op_numSub(Fetched, pa, pb), "OP_NUM_SUB", 0)

IntMul ==
    /\ Dispatch(0)
    /\ \E pa, pb \in Puns :
          Commit(op_intMul(Fetched, pa, pb), "OP_INT_MUL", 0)

NumMul ==
    /\ Dispatch(0) /\ Followed(2)
    /\ \E pa, pb \in Puns :
          Commit(op_numMul(Fetched, pa, pb), "OP_NUM_MUL", 0)

IntDiv ==
    /\ Dispatch(0)
    /\ \E pa, pb \in Puns :
          Commit(op_intDiv(Fetched, pa, pb), "OP_INT_DIV", 0)

NumDiv ==
    /\ Dispatch(0) /\ Followed(2)
    /\ \E pa, pb \in Puns :
          Commit(op_numDiv(Fetched, pa, pb), "OP_NUM_DIV", 0)

StrCat == Dispatch(0) /\ Commit(op_strCat(Fetched), "OP_STR_CAT", 0)

Not ==
    /\ Dispatch(0)
    /\ \E pa \in Puns : Commit(op_not(Fetched, pa), "OP_NOT", 0)

IntLess ==
    /\ Dispatch(0)
    /\ \E pa, pb \in Puns :
          Commit(op_intLess(Fetched, pa, pb), "OP_INT_LESS", 0)

NumLess ==
    /\ Dispatch(0) /\ Followed(2)
    /\ \E pa, pb \in Puns :
          Commit(op_numLess(Fetched, pa, pb), "OP_NUM_LESS", 0)

IntGreater ==
    /\ Dispatch(0)
    /\ \E pa, pb \in Puns :
          Commit(op_intGreater(Fetched, pa, pb), "OP_INT_GREATER", 0)

NumGreater ==
    /\ Dispatch(0) /\ Followed(2)
    /\ \E pa, pb \in Puns :
          Commit(op_numGreater(Fetched, pa, pb), "OP_NUM_GREATER", 0)

Equal == Dispatch(0) /\ Commit(op_equal(Fetched), "OP_EQUAL", 0)

Jump ==
    /\ Dispatch(1)
    /\ \E offset \in 0 .. MaxOffset :
          Commit(op_jump(Fetched, offset), "OP_JUMP", offset)

JumpIfFalse ==
    /\ Dispatch(1)
    /\ \E offset \in 0 .. MaxOffset, pa \in Puns :
          Commit(op_jumpIfFalse(Fetched, offset, pa), "OP_JUMP_IF_FALSE",
                 offset)

Loop ==
    /\ Dispatch(1)
    /\ \E offset \in 0 .. MaxOffset :
          Commit(op_loop(Fetched, offset), "OP_LOOP", offset)

SetReturn == Dispatch(0) /\ Commit(op_setReturn(Fetched), "OP_SET_RETURN", 0)

PushReturn ==
    /\ Dispatch(0)
    /\ \E garbage \in {NULL, WILD} :
          Commit(op_pushReturn(Fetched, garbage), "OP_PUSH_RETURN", 0)

Struct ==
    /\ Dispatch(1)
    /\ \E fieldCount \in Operands :
          Commit(op_struct(Fetched, fieldCount), "OP_STRUCT", fieldCount)

GetField ==
    /\ Dispatch(1)
    /\ \E index \in Operands :
          Commit(op_getField(Fetched, index), "OP_GET_FIELD", index)

ExtractField ==
    /\ Dispatch(2)
    /\ \E offset \in Operands, index \in Operands :
          Commit(op_extractField(Fetched, offset, index), "OP_EXTRACT_FIELD",
                 index)

SetField ==
    /\ Dispatch(1)
    /\ \E index \in Operands :
          Commit(op_setField(Fetched, index), "OP_SET_FIELD", index)

\* a byte that is no opcode (opcode >= OP_COUNT), or one left on errorInstruction
Unknown ==
    /\ Dispatch(0)
    /\ \E r \in {RESULT_ERR(Fetched), [Fetched EXCEPT !.ok = FALSE]} :
          Commit(r, "unknown", 0)

\* executeCode: loadConstants, then start, end and ip are set and runVM entered
ExecuteCode ==
    LET l == loadConstants(VM, code, end)
    IN  /\ status = "load"
        /\ status' = IF l.trap THEN "trap" ELSE IF l.ok THEN "run" ELSE "err"
        /\ oob' = l.oob
        /\ constants' = l.constants
        /\ objects' = l.objects
        /\ track' = l.track
        /\ ip' = IF l.ok /\ ~l.trap THEN l.index ELSE ip
        /\ executed' = IF l.ok /\ ~l.trap THEN 0 .. (l.index - 1) ELSE executed
        /\ output' = IF l.ok THEN l.output ELSE Append(l.output, Diagnostic)
        /\ UNCHANGED <<stack, sp, fp, end, globals, opcode, operand, calls, ret,
                       code, returnStore, twin>>

\* runVM leaves its loop: RESULT_OK
Halt ==
    /\ status = "run"
    /\ ~(end - ip > 0)
    /\ status' = "ok"
    /\ twin' = IF twin.status = "run" /\ ~(twin.end - twin.ip > 0)
               THEN [twin EXCEPT !.status = "ok"] ELSE twin
    /\ UNCHANGED <<stack, sp, fp, ip, end, globals, objects, opcode, operand,
                   executed, track, calls, ret, code, constants, returnStore,
                   output, oob>>

Next ==
    \/ PushTrue \/ PushFalse \/ PushNil
    \/ SetGlobal \/ PushGlobal \/ SetLocal \/ PushLocal
    \/ Pop
    \/ Function \/ Call \/ LoadIp \/ LoadFp
    \/ RefLocal \/ Deref \/ SetRef
    \/ Halt

Spec == Init /\ [][Next]_vars

\* calls and returns, with function bodies of up to MaxOffset bytes
NextFrame ==
    \/ PushNil \/ SetLocal \/ Pop
    \/ FunctionFar \/ Call \/ LoadIp \/ LoadFp
    \/ Halt

SpecFrame == InitFrame /\ [][NextFrame]_vars

\* every opcode, on a buffer whose pool holds the one-byte string "a"
OnePool == <<1, CONST_STR, 1, 97>>

InitAll == Handed({OnePool}, {Len(OnePool) + AllLen})

NextAll ==
    \/ ExecuteCode
    \/ PushConst \/ PushTrue \/ PushFalse \/ PushNil
    \/ SetGlobal \/ PushGlobal \/ SetLocal \/ PushLocal
    \/ CastInt \/ CastBool \/ CastNum \/ CastStr \/ Clock
    \/ PrintLine \/ Pop
    \/ IntNeg \/ NumNeg \/ IntAdd \/ NumAdd \/ IntSub \/ NumSub
    \/ IntMul \/ NumMul \/ IntDiv \/ NumDiv \/ StrCat \/ Not
    \/ IntLess \/ NumLess \/ IntGreater \/ NumGreater \/ Equal
    \/ Jump \/ JumpIfFalse \/ Loop
    \/ Function \/ Call \/ LoadIp \/ LoadFp \/ SetReturn \/ PushReturn
    \/ Struct \/ GetField \/ ExtractField \/ SetField
    \/ RefLocal \/ Deref \/ SetRef
    \/ Unknown
    \/ Halt

SpecAll == InitAll /\ [][NextAll]_vars

\* structs and their fields, with locals and globals to hold a second
\* reference: a store into a field or an extraction needs six instruction
\* bytes, one more than the runs of SpecAll have
InitStruct == Loaded(codeIndex + StructLen)

NextStruct ==
    \/ PushTrue \/ PushNil \/ Pop
    \/ Struct \/ GetField \/ ExtractField \/ SetField
    \/ PushLocal \/ SetGlobal \/ PushGlobal
    \/ Halt

SpecStruct == InitStruct /\ [][NextStruct]_vars

\* the typed opcodes, on values produced by pushes and casts
InitArith == Loaded(codeIndex + ArithLen)

NextArith ==
    \/ PushTrue \/ PushNil \/ CastInt \/ CastNum
    \/ IntNeg \/ NumNeg \/ IntAdd \/ NumAdd \/ IntSub \/ NumSub
    \/ IntMul \/ NumMul \/ IntDiv \/ NumDiv \/ Not
    \/ IntLess \/ NumLess \/ IntGreater \/ NumGreater
    \/ JumpIfFalse
    \/ Halt

SpecArith == InitArith /\ [][NextArith]_vars

\* jumps, loops and skipped function bodies, on conditions produced by pushes
InitJump == Loaded(codeIndex + JumpLen)

NextJump ==
    \/ PushTrue \/ PushFalse
    \/ Jump \/ JumpIfFalse \/ Loop \/ FunctionFar
    \/ Halt

SpecJump == InitJump /\ [][NextJump]_vars

\* the loader, on buffers that start with a count byte and up to two records,
\* cut at every length; Behind is memory that lies behind the buffer
Records ==
    { <<CONST_INT, 0, 0, 0, 0>>, <<CONST_INT, 1, 0, 0, 0>>,
      <<CONST_INT, 255, 255, 255, 255>>,
      <<CONST_NUM, 0, 0, 0, 0, 0, 0, 0, 0>>,
      <<CONST_NUM, 0, 0, 0, 0, 0, 0, 240, 63>>,
      <<CONST_STR, 0>>, <<CONST_STR, 1, 97>>, <<CONST_STR, 2, 97, 98>>,
      <<CONST_STR, 200>>, <<UnknownTag>>, <<>> }

Behind == { <<>>, <<0, 0, 0, 0>> }

Blobs ==
    { <<count>> \o r1 \o r2 \o m :
        count \in 0 .. MaxCount, r1 \in Records, r2 \in Records, m \in Behind }

InitLoad ==
    /\ Handed(Blobs, 0 .. MaxLength)
    /\ end <= Len(code)

NextLoad == ExecuteCode \/ Halt

SpecLoad == InitLoad /\ [][NextLoad]_vars

\* two freshly initialised VMs run the same buffer, each with the clock
\* values its own run happens to get; the second VM reads the bytes the
\* first one fetches
TwinFetched == [twin EXCEPT !.ip = @ + 1, !.lo = twin.sp]

Settle(r) ==
    [r EXCEPT !.status = IF r.trap THEN "trap" ELSE IF r.ok THEN "run" ELSE "err",
              !.output = IF r.ok THEN @ ELSE Append(@, Diagnostic)]

Both(r, r2, op, arg) ==
    /\ Install(r, op, arg)
    /\ twin' = IF twin.status = "run" /\ twin.ip = ip THEN Settle(r2) ELSE twin

TwinPushTrue ==
    /\ Dispatch(0)
    /\ Both(op_pushTrue(Fetched), op_pushTrue(TwinFetched), "OP_PUSH_TRUE", 0)

TwinClock ==
    /\ Dispatch(0)
    /\ \E now \in {0, NUM_OTHER}, now2 \in {0, NUM_OTHER} :
          Both(op_clock(Fetched, now), op_clock(TwinFetched, now2),
               "OP_CLOCK", 0)

TwinSetGlobal ==
    /\ Dispatch(1)
    /\ \E index \in Operands :
          Both(op_setGlobal(Fetched, index), op_setGlobal(TwinFetched, index),
               "OP_SET_GLOBAL", index)

TwinPushGlobal ==
    /\ Dispatch(1)
    /\ \E index \in Operands :
          Both(op_pushGlobal(Fetched, index), op_pushGlobal(TwinFetched, index),
               "OP_PUSH_GLOBAL", index)

TwinPop == Dispatch(0) /\ Both(op_pop(Fetched), op_pop(TwinFetched), "OP_POP", 0)

InitClock ==
    /\ Started(codeIndex + ClockLen)
    /\ twin = VM @@ [status |-> "run"]

NextClock ==
    \/ TwinPushTrue \/ TwinClock \/ TwinSetGlobal \/ TwinPushGlobal \/ TwinPop
    \/ Halt

SpecClock == InitClock /\ [][NextClock]_vars

\* ------------------------------------------------------------------ claims

\* C1 (as stated): whenever a callee has popped its arguments and locals and
\* run LOAD_FP then LOAD_IP, fp is the caller's fp from before the CALL, ip is
\* the byte after the CALL operand and sp is the pre-CALL sp minus n minus 1.
Restored(f) ==
    /\ fp = f.callerFp
    /\ ip = f.ret
    /\ sp = f.spPre - f.n - 1

C1_FrameRestoredAlways == ret.stage # "none" => Restored(ret)

\* C1 (amended): the same, for a callee that has left the saved IP and the
\* saved FP that CALL pushed below its frame as they were.
C1_FrameRestored == (ret.stage # "none" /\ ret.intact) => Restored(ret)

\* a CALL with an argument returned through the epilogue
C1_Witness ==
    /\ ret.stage # "none" /\ ret.intact /\ ret.n = 1
    /\ opcode = "OP_LOAD_IP" /\ status = "run"
    /\ Restored(ret)

Cells == {u \in DOMAIN objects : objects[u].type = "OBJ_UPVALUE"}

Closed(u) == objects[u].ptr = CELL

\* C2 (as stated): while the slot an upvalue was created on has stayed on the
\* live stack, DEREF of the upvalue yields the value now stored in that slot.
C2_OpenWhileLive ==
    \A u \in Cells :
        track[u].live => SameValue(readUpvalue(VM, u), stack[track[u].slot])

\* C3 (as stated): once SET_REF has written v through an upvalue whose slot
\* was live and POP has then popped that slot, the upvalue is closed and
\* DEREF of it yields v.
C3_WriteSurvivesClose ==
    \A u \in Cells :
        (track[u].wrote # NoValue /\ track[u].popped) =>
            (Closed(u) /\ SameValue(readUpvalue(VM, u), track[u].wrote))

\* what DEREF leaves on top of the stack when cell u is on top
DerefYields(u) == op_deref(Fetched).stack[sp - 1]

OnTop(u) == sp > 0 /\ stack[sp - 1].type = "VAL_OBJ" /\ stack[sp - 1].as = u

\* C4: a closed upvalue holds the value its slot had when it was closed, or
\* the value the last SET_REF through it wrote since; DEREF yields that
\* value, whatever was pushed, popped or stored into locals in between.
C4_ClosedValue ==
    \A u \in Cells :
        Closed(u) =>
            /\ SameValue(readUpvalue(VM, u), track[u].expected)
            /\ OnTop(u) =>
                  /\ op_deref(Fetched).ok
                  /\ SameValue(DerefYields(u), track[u].expected)

\* a closed cell that SET_REF has written TRUE into, its slot holding NIL
C4_Witness ==
    \E u \in Cells :
        /\ Closed(u) /\ opcode = "OP_SET_REF" /\ status = "run"
        /\ track[u].wrote = makeBool(TRUE)
        /\ track[u].expected = makeBool(TRUE)
        /\ stack[track[u].slot].type = "VAL_NIL"

\* C5 (as stated): a cell is closed at most once, closeUpvalue is never
\* applied to a closed cell, and no cell is closed while its slot is live.
C5_ClosedOnceAtPop ==
    \A u \in Cells : track[u].closes <= 1 /\ ~track[u].closedLive

\* C6 (as stated): while the VM runs, no open upvalue references a stack slot
\* at or above sp.
C6_NoOpenAboveSp ==
    status # "err" => \A u \in Cells : ~Closed(u) => objects[u].ptr < sp

\* the step ran the handler of opcode op with its operand byte read
Ran(op) == opcode' = op /\ end - (ip + 1) >= 1

\* C7: after a successful SET_LOCAL k, fp[k] holds the popped value's tag and
\* payload and the reference list fp[k] had before the instruction.
C7_SetLocalKeepsReferences ==
    [][(Ran("OP_SET_LOCAL") /\ status' = "run") =>
          /\ SameValue(stack'[fp + operand'], stack[sp - 1])
          /\ stack'[fp + operand'].references
                = stack[fp + operand'].references]_vars

\* a successful SET_LOCAL onto a slot with a cell attached, of a value that
\* carried no cell
C7_Witness ==
    /\ opcode = "OP_SET_LOCAL" /\ status = "run"
    /\ stack[fp + operand].references # NULL
    /\ stack[fp + operand].type = "VAL_BOOL"
    /\ stack[sp].references = NULL

\* C8 (as stated): PUSH_LOCAL k succeeds if and only if k < sp - fp.
C8_PushLocalIffInRange ==
    [][Ran("OP_PUSH_LOCAL") =>
          (status' = "run" <=> operand' < sp - fp)]_vars

\* C8 (amended): PUSH_LOCAL k succeeds if and only if k < sp - fp and the
\* stack is not full.
C8_PushLocalIffInRangeAndRoom ==
    [][Ran("OP_PUSH_LOCAL") =>
          (status' = "run" <=> (operand' < sp - fp /\ sp < STACK_MAX))]_vars

\* a PUSH_LOCAL of an addressable local refused by the full stack
C8_Witness ==
    /\ opcode = "OP_PUSH_LOCAL" /\ status = "err"
    /\ operand < sp - fp /\ sp = STACK_MAX

\* C9 (as stated): SET_LOCAL k fails exactly when k >= sp - fp, sp taken at
\* the start of the instruction, and then leaves the stack as it was.
C9_SetLocalRangeAtStart ==
    [][Ran("OP_SET_LOCAL") =>
          /\ status' = "err" <=> operand' >= sp - fp
          /\ status' = "err" => (sp' = sp /\ stack' = stack /\ fp' = fp)]_vars

\* C9 (amended): SET_LOCAL k fails exactly when the stack is empty or
\* k >= (sp - 1) - fp, sp taken at the start of the instruction; when the
\* index is refused the value has been popped (sp is one lower) and no slot
\* and not fp has changed.
C9_SetLocalRangeAfterPop ==
    [][Ran("OP_SET_LOCAL") =>
          /\ status' = "err" <=> (sp = 0 \/ operand' >= (sp - 1) - fp)
          /\ (status' = "err" /\ sp > 0) =>
                (sp' = sp - 1 /\ stack' = stack /\ fp' = fp)]_vars

\* SET_LOCAL of the top slot's own index, refused after the pop
C9_Witness ==
    /\ opcode = "OP_SET_LOCAL" /\ status = "err"
    /\ operand = sp - fp /\ operand > 0

\* C10: 0 <= sp <= STACK_MAX in every state; on a full stack a push fails and
\* writes no slot; on an empty stack POP fails and sp stays 0.
C10_StackBounds ==
    /\ sp >= 0 /\ sp <= STACK_MAX
    /\ sp = STACK_MAX =>
          /\ op_pushNil(Fetched) = RESULT_ERR(Fetched)
          /\ \A k \in Operands :
                op_getLocal(Fetched, k).stack = stack
    /\ sp = 0 =>
          /\ op_pop(Fetched) = RESULT_ERR(Fetched)
          /\ ~op_deref(Fetched).ok

\* POP dispatched on the empty stack after the stack had been used
C10_Witness ==
    /\ opcode = "OP_POP" /\ status = "err" /\ sp = 0
    /\ stack[0] # makeNil

GlobalSlots == 0 .. (GLOBAL_MAX - 1)

\* C12: no step clears an is-set flag; only a successful SET_GLOBAL k changes
\* slot k, to the popped value, and it changes no other slot; PUSH_GLOBAL k
\* fails on a slot never set and otherwise, the stack not full, pushes the
\* value slot k holds.
C12_GlobalsTable ==
    [][/\ \A i \in GlobalSlots : globals.isSet[i] => globals'.isSet[i]
       /\ \A i \in GlobalSlots :
             ~(Ran("OP_SET_GLOBAL") /\ status' = "run" /\ operand' = i) =>
                 /\ globals'.isSet[i] = globals.isSet[i]
                 /\ globals'.data[i] = globals.data[i]
       /\ (Ran("OP_SET_GLOBAL") /\ status' = "run") =>
             /\ operand' \in GlobalSlots
             /\ globals'.isSet[operand']
             /\ globals'.data[operand'] = stack[sp - 1]
       /\ Ran("OP_PUSH_GLOBAL") =>
             IF operand' \in GlobalSlots /\ globals.isSet[operand']
             THEN sp < STACK_MAX =>
                    /\ status' = "run"
                    /\ sp' = sp + 1
                    /\ stack'[sp] = globals.data[operand']
             ELSE status' = "err"]_vars

\* PUSH_GLOBAL of one slot after both slots were set, to different values
C12_Witness ==
    /\ opcode = "OP_PUSH_GLOBAL" /\ status = "run"
    /\ \A i \in GlobalSlots : globals.isSet[i]
    /\ \E i \in GlobalSlots : globals.data[i] # globals.data[operand]
    /\ stack[sp - 1] = globals.data[operand]

\* the step dispatches an opcode
Dispatched == status = "run" /\ end - ip > 0

\* the change of sp the opcode is documented to make
Delta(op, n) ==
    CASE op \in {"OP_PUSH_CONST", "OP_PUSH_TRUE", "OP_PUSH_FALSE",
                 "OP_PUSH_NIL", "OP_PUSH_GLOBAL", "OP_PUSH_LOCAL", "OP_CLOCK",
                 "OP_FUNCTION", "OP_PUSH_RETURN", "OP_EXTRACT_FIELD",
                 "OP_REF_LOCAL", "OP_CALL"} -> 1
      [] op \in {"OP_INT", "OP_BOOL", "OP_NUM", "OP_STR", "OP_INT_NEG",
                 "OP_NUM_NEG", "OP_NOT", "OP_DEREF", "OP_GET_FIELD",
                 "OP_JUMP", "OP_LOOP"} -> 0
      [] op \in {"OP_SET_GLOBAL", "OP_SET_LOCAL", "OP_PRINT", "OP_POP",
                 "OP_INT_ADD", "OP_NUM_ADD", "OP_INT_SUB", "OP_NUM_SUB",
                 "OP_INT_MUL", "OP_NUM_MUL", "OP_INT_DIV", "OP_NUM_DIV",
                 "OP_INT_LESS", "OP_NUM_LESS", "OP_INT_GREATER",
                 "OP_NUM_GREATER", "OP_STR_CAT", "OP_EQUAL",
                 "OP_JUMP_IF_FALSE", "OP_LOAD_IP", "OP_LOAD_FP",
                 "OP_SET_RETURN", "OP_SET_FIELD"} -> 0 - 1
      [] op = "OP_SET_REF" -> 0 - 2
      [] op = "OP_STRUCT" -> 1 - n

\* C11: a handler that returns success has changed sp by the amount fixed by
\* its opcode and operand, so a block's net change is the sum over its opcodes.
C11_StackConservation ==
    [][(Dispatched /\ status' = "run") =>
          sp' - sp = Delta(opcode', operand')]_vars

\* STRUCT 2 has folded two pushed values into one struct
C11_Witness ==
    /\ opcode = "OP_STRUCT" /\ operand = 2 /\ status = "run"
    /\ sp = 1 /\ isStruct(VM, stack[0])
    /\ objects[stack[0].as].fields[1] # NoValue

\* C13 (as stated): INT_DIV whose right-hand operand is the integer 0 returns
\* failure and performs no division.
C13_DivByZeroFails ==
    [][(/\ Dispatched /\ opcode' = "OP_INT_DIV" /\ sp >= 2
        /\ stack[sp - 1].type = "VAL_INT" /\ stack[sp - 1].as = 0
        /\ stack[sp - 2].type = "VAL_INT") => status' = "err"]_vars

\* the tag a typed opcode expects of its operands, and how many it takes
Expects(op) ==
    CASE op \in {"OP_INT_NEG", "OP_INT_ADD", "OP_INT_SUB", "OP_INT_MUL",
                 "OP_INT_DIV", "OP_INT_LESS", "OP_INT_GREATER"} -> "VAL_INT"
      [] op \in {"OP_NUM_NEG", "OP_NUM_ADD", "OP_NUM_SUB", "OP_NUM_MUL",
                 "OP_NUM_DIV", "OP_NUM_LESS", "OP_NUM_GREATER"} -> "VAL_NUM"
      [] op \in {"OP_NOT", "OP_JUMP_IF_FALSE"} -> "VAL_BOOL"
      [] OTHER -> "NONE"

Arity(op) ==
    IF op \in {"OP_INT_NEG", "OP_NUM_NEG", "OP_NOT", "OP_JUMP_IF_FALSE"}
    THEN 1 ELSE 2

\* C14 (as stated): a typed opcode dispatched on an operand whose tag is not
\* the tag it expects returns failure.
C14_TypeViolationFails ==
    [][(/\ Dispatched /\ Expects(opcode') # "NONE" /\ sp >= Arity(opcode')
        /\ \E k \in 1 .. Arity(opcode') :
              stack[sp - k].type # Expects(opcode')) => status' = "err"]_vars

\* C15 (as stated): after a successful JUMP, JUMP_IF_FALSE or LOOP, ip lies
\* between the first instruction byte after the constant-pool prelude and the
\* end of the buffer.
C15_JumpStaysInCode ==
    [][(/\ Dispatched /\ status' = "run"
        /\ opcode' \in {"OP_JUMP", "OP_JUMP_IF_FALSE", "OP_LOOP"}) =>
          (codeIndex <= ip' /\ ip' <= end)]_vars

\* the lines of stdout that PRINT wrote
Printed(out) == SelectSeq(out, LAMBDA line : line # Diagnostic)

\* C16: once a handler or the opcode-range check has returned failure, the
\* run stays failed: nothing is dispatched, printed or written any more; and
\* a byte that is no mapped opcode is such a failure.
C16_FailureHalts ==
    [][/\ status # "err"
       /\ (Dispatched /\ opcode' = "unknown") =>
             (/\ status' = "err" /\ Printed(output') = Printed(output)
              /\ globals' = globals
              /\ objects' = objects /\ stack' = stack /\ sp' = sp)]_vars

\* an unmapped byte met after a line was printed
C16_Witness ==
    /\ status = "err" /\ opcode = "unknown"
    /\ Printed(output) # <<>>

\* C17 (as stated): while the run has not failed ip never exceeds end, and a
\* run that has returned success stands at ip = end.
C17_RunEndsAtEnd ==
    /\ status = "run" => ip <= end
    /\ status = "ok" => ip = end

\* the size of the well-formed record that starts at pos, 0 if there is none
RecordSize(mem, length, pos) ==
    IF pos >= length THEN 0
    ELSE IF mem[pos + 1] = CONST_INT
    THEN IF pos + 5 <= length THEN 5 ELSE 0
    ELSE IF mem[pos + 1] = CONST_NUM
    THEN IF pos + 9 <= length THEN 9 ELSE 0
    ELSE IF mem[pos + 1] = CONST_STR
    THEN IF pos + 2 <= length /\ pos + 2 + mem[pos + 2] <= length
         THEN 2 + mem[pos + 2] ELSE 0
    ELSE 0

\* the offset behind n well-formed records that start at pos, -1 if the
\* buffer does not hold them
RECURSIVE PoolEnd(_, _, _, _)
PoolEnd(mem, length, pos, n) ==
    IF n = 0 THEN pos
    ELSE IF RecordSize(mem, length, pos) = 0 THEN 0 - 1
    ELSE PoolEnd(mem, length, pos + RecordSize(mem, length, pos), n - 1)

WellFormed(mem, length) ==
    length >= 1 /\ PoolEnd(mem, length, 1, mem[1]) >= 0

\* C18 (as stated): the loader reads no byte at an index >= length, and it
\* returns failure on a buffer that is not a well-formed blob.
C18_LoaderRejects ==
    [][status = "load" =>
          /\ ~oob'
          /\ ~WellFormed(code, end) => status' = "err"]_vars

\* the value the record at pos decodes to: an integer for INT and NUM (2^31 ..
\* 2^32 - 1 stand for the negative INTs), the content for STR
Int32Of(b) ==
    LET u == b[1] + 256 * (b[2] + 256 * (b[3] + 256 * (b[4] % 128)))
    IN  IF b[4] >= 128 THEN u - 2147483647 - 1 ELSE u

Holds(s, v, mem, pos) ==
    IF mem[pos + 1] = CONST_INT
    THEN v.type = "VAL_INT" /\ v.as = Int32Of(SubSeq(mem, pos + 2, pos + 5))
    ELSE IF mem[pos + 1] = CONST_NUM
    THEN /\ v.type = "VAL_NUM"
         /\ v.as = (IF mem[pos + 9] = 63 THEN 1 ELSE 0)
    ELSE /\ v.type = "VAL_OBJ"
         /\ v.as \in DOMAIN s.objects
         /\ s.objects[v.as].type = "OBJ_STRING"
         /\ s.objects[v.as].length = mem[pos + 2]
         /\ s.objects[v.as].data
               = SubSeq(mem, pos + 3, pos + 2 + mem[pos + 2])

\* C19: on a well-formed blob of N records the loader succeeds, the pool
\* holds the N decoded records in blob order, and the code offset is 1 plus
\* the sizes of the records; nothing need follow the last record.
C19_LoaderResult ==
    [][(status = "load" /\ WellFormed(code, end)) =>
          /\ status' = "run"
          /\ ip' = PoolEnd(code, end, 1, code[1])
          /\ Len(constants') = code[1]
          /\ \A k \in 1 .. code[1] :
                Holds([objects |-> objects'], constants'[k], code,
                      PoolEnd(code, end, 1, k - 1))]_vars

\* an INT and a two-byte string loaded from a buffer that ends with the
\* string's last byte
C19_Witness ==
    /\ status = "run" /\ opcode = "none"
    /\ ip = end /\ end = 10
    /\ Len(constants) = 2
    /\ constants[1] = makeInt(0 - 1)
    /\ isString(VM, constants[2])
    /\ objects[constants[2].as].data = <<97, 98>>

\* C20: a successful CALL n with callee c on top of a_0 .. a_(n-1) leaves
\* ip = c, the return address (IP) and above it the caller's fp (FP) where the
\* arguments started, fp just above the saved FP, fp[i] = a_i and
\* sp = fp + n; CALL on a callee that is no IP fails.
C20_CallFrameLayout ==
    [][(Dispatched /\ opcode' = "OP_CALL") =>
          LET n == operand'
              base == sp - 1 - n
          IN  /\ status' = "run" =>
                    /\ stack[sp - 1].type = "VAL_IP"
                    /\ ip' = stack[sp - 1].as
                    /\ stack'[base] = makeIP(ip + 2)
                    /\ stack'[base + 1] = makeFP(fp)
                    /\ fp' = base + 2
                    /\ \A i \in 0 .. (n - 1) : stack'[fp' + i] = stack[base + i]
                    /\ sp' = fp' + n
              /\ (end - (ip + 1) >= 1 /\ sp >= 1
                  /\ stack[sp - 1].type # "VAL_IP") => status' = "err"]_vars

\* CALL 2 has moved two different arguments above the saved IP and FP
C20_Witness ==
    /\ opcode = "OP_CALL" /\ operand = 2 /\ status = "run"
    /\ fp = 2 /\ sp = 4
    /\ stack[2] # stack[3]
    /\ stack[0].type = "VAL_IP" /\ stack[1] = makeFP(0)

\* the Struct objects of the heap
Structs == {u \in DOMAIN objects : objects[u].type = "OBJ_STRUCT"}

\* C21: a successful STRUCT n makes a new struct of field count n whose
\* field i is the i-th of the n values pushed last (the first pushed is
\* field 0) and leaves a reference to it in their place; a successful
\* GET_FIELD k replaces the struct reference on top by the struct's field k;
\* no step changes the field count of a struct.
C21_StructFieldOrder ==
    [][/\ (Dispatched /\ opcode' = "OP_STRUCT" /\ status' = "run") =>
             LET n == operand'
                 id == Len(objects')
                 base == sp - n
             IN  /\ Len(objects') = Len(objects) + 1
                 /\ objects'[id].type = "OBJ_STRUCT"
                 /\ objects'[id].fieldCount = n
                 /\ DOMAIN objects'[id].fields = 0 .. (n - 1)
                 /\ \A i \in 0 .. (n - 1) :
                       objects'[id].fields[i] = stack[base + i]
                 /\ sp' = base + 1
                 /\ stack'[base] = makeObject(id)
       /\ (Dispatched /\ opcode' = "OP_GET_FIELD" /\ status' = "run") =>
             /\ isStruct(VM, stack[sp - 1])
             /\ operand' < objects[stack[sp - 1].as].fieldCount
             /\ sp' = sp
             /\ stack'[sp - 1] = objects[stack[sp - 1].as].fields[operand']
       /\ \A u \in Structs :
             /\ objects'[u].type = "OBJ_STRUCT"
             /\ objects'[u].fieldCount = objects[u].fieldCount]_vars

\* GET_FIELD 1 on a struct made of NIL then TRUE has pushed TRUE
C21_Witness ==
    /\ opcode = "OP_GET_FIELD" /\ operand = 1 /\ status = "run"
    /\ sp = 1 /\ stack[0] = makeBool(TRUE)
    /\ Structs # {}
    /\ \A u \in Structs : /\ objects[u].fieldCount = 2
                           /\ objects[u].fields[0] = makeNil
                           /\ objects[u].fields[1] = makeBool(TRUE)

\* C22 (as stated): stdout holds the strings of the executed PRINTs, in
\* order, and nothing else: a successful PRINT appends the popped string's
\* content as a line, and no other step writes to stdout.
C22_StdoutIsPrintOnly ==
    [][IF Dispatched /\ opcode' = "OP_PRINT" /\ status' = "run"
       THEN output' = Append(output, objects[stack[sp - 1].as].data)
       ELSE output' = output]_vars

\* C23 (as stated), its parts on the result and the globals: when two runs of
\* one buffer that differ only in the clock values they got have both ended,
\* both succeeded or both failed, and their globals tables are the same.
C23_Determinism ==
    (status \in {"ok", "err"} /\ twin.status \in {"ok", "err"}) =>
        /\ twin.status = status
        /\ twin.globals = globals

\* the stack value at `at` is a Struct with a field k
HasField(at, k) ==
    /\ at >= 0 /\ at < sp
    /\ isStruct(VM, stack[at])
    /\ k < objects[stack[at].as].fieldCount

LocalAccess(op) == Dispatched /\ opcode' = op /\ status' = "run"

\* C25: fp always lies within [stack, stack + STACK_MAX], and a successful
\* PUSH_LOCAL k, SET_LOCAL k or REF_LOCAL k addresses a slot fp + k with
\* stack <= fp + k < sp: PUSH_LOCAL pushes that slot's value, SET_LOCAL
\* writes that slot and no other, REF_LOCAL makes an upvalue onto that slot.
C25_LocalsInsideStack ==
    /\ [](fp \in 0 .. STACK_MAX)
    /\ [][/\ LocalAccess("OP_PUSH_LOCAL") =>
               /\ 0 <= fp + operand' /\ fp + operand' < sp
               /\ stack'[sp].type = stack[fp + operand'].type
               /\ stack'[sp].as = stack[fp + operand'].as
          /\ LocalAccess("OP_SET_LOCAL") =>
               /\ 0 <= fp + operand' /\ fp + operand' < sp - 1
               /\ \A j \in 0 .. (STACK_MAX - 1) :
                     j # fp + operand' => stack'[j] = stack[j]
               /\ stack'[fp + operand'].as = stack[sp - 1].as
          /\ LocalAccess("OP_REF_LOCAL") =>
               /\ 0 <= fp + operand' /\ fp + operand' < sp
               /\ objects'[stack'[sp].as].ptr = fp + operand'
          /\ LocalAccess("OP_LOAD_FP") => fp' = stack[sp - 1].as]_vars

\* PUSH_LOCAL has read the top slot of a frame that CALL opened
C25_Witness ==
    /\ opcode = "OP_PUSH_LOCAL" /\ status = "run"
    /\ fp > 0 /\ fp + operand = sp - 2

\* every Value the machine holds: stack slots, globals, the return store,
\* constants, struct fields and closed upvalue cells
HeldValues ==
    {stack[j] : j \in Slots}
      \cup {globals.data[i] : i \in GlobalSlots}
      \cup {returnStore}
      \cup {constants[i] : i \in DOMAIN constants}
      \cup UNION {{objects[u].fields[k] : k \in DOMAIN objects[u].fields}
                    : u \in Structs}
      \cup {objects[u].closed :
               u \in {x \in DOMAIN objects : objects[x].type = "OBJ_UPVALUE"}}

\* the addresses of the IP-tagged values
IPAddresses == {v.as : v \in {x \in HeldValues : x.type = "VAL_IP"}}

\* C26: every IP-tagged value holds an address in [start, end]; a new
\* address appears among them only by a FUNCTION or a CALL; after a
\* successful CALL or LOAD_IP ip is one of these addresses, so
\* start <= ip <= end.
C26_CodePointersInBuffer ==
    /\ [](status # "none" => \A a \in IPAddresses : vm_start <= a /\ a <= end)
    /\ [][/\ IPAddresses' \ IPAddresses # {} =>
               opcode' \in {"OP_FUNCTION", "OP_CALL"}
          /\ (Dispatched /\ opcode' \in {"OP_CALL", "OP_LOAD_IP"}
                /\ status' = "run") =>
               /\ ip' \in IPAddresses
               /\ vm_start <= ip' /\ ip' <= end']_vars

\* LOAD_IP has returned to the caller's address, which is the end of the
\* buffer: the CALL was the last instruction
C26_Witness ==
    /\ opcode = "OP_LOAD_IP" /\ status = "run"
    /\ ip = end /\ calls # <<>>

====
